---- MODULE Spec2Model ----
(***************************************************************************)
(* gitsome: main() of gitsome.py, the query builders of the handlers, the  *)
(* GraphQL client, and the repository handler.                             *)
(*                                                                         *)
(* The model follows main() from the parsed command line to the exit       *)
(* status: the primary query of org, repo and user through client.query,   *)
(* and for repo the branch comparison round trip and its merge into the    *)
(* primary result tree, the saving, then print_repo_info: commit-history   *)
(* pagination and the committer aggregation.                               *)
(*                                                                         *)
(* Text is modelled as a sequence of one-character strings, so that        *)
(* formatting (f-strings, str(), str.replace) is computed and not assumed; *)
(* a query document is the sequence of its lexemes.  JSON null (Python     *)
(* None) is the record None; a nullable string is None or JStr(chars).     *)
(***************************************************************************)
EXTENDS Integers, Sequences, FiniteSets, TLC

VARIABLES
    args,             \* main: the parsed command line
    call,             \* a call of a query builder made from outside main, or None
    query,            \* the primary query text built, empty until it is built
    posts,            \* every payload requests.post sent, in order
    responses,        \* every HTTP response received, in order
    raised,           \* the exceptions client.query raised, in order
    exit_code,        \* empty while the process runs, then its exit status
    printed,          \* the print_*_info functions entered, in order
    pc,               \* position of the command in main() / print_repo_info
    data,             \* the primary result tree (data['data']['repository'])
    branch_names,     \* main: candidate branch names (gitsome.py:130)
    comparison_query, \* main: the comparison query built (its sub-selections)
    comparison_data,  \* main: decoded comparison response (repository object),
                      \* empty until a response is decoded
    requests,         \* every request handed to client.query, in order
    inflight,         \* the request client.query is waiting on, or None
    stderr,           \* diagnostics printed to stderr, in order
    saved,            \* main: what save_json / save_markdown_report wrote
    client,           \* print_repo_info: whether a client was passed
    commit_nodes,     \* print_repo_info: the accumulated commit records
    page_info,        \* print_repo_info: pageInfo of the last page read
    cursor,           \* print_repo_info: the pagination cursor
    fetched,          \* the pages of commit records the server has handed out
    sorted_committers, \* print_repo_info: the ranking printed
    ahead_branches    \* print_repo_info: the fork analysis printed

compareVars == <<branch_names, comparison_query, comparison_data>>

historyVars == <<client, commit_nodes, page_info, cursor, fetched,
                 sorted_committers, ahead_branches>>

commandVars == <<args, call, query, exit_code, printed>>

clientVars == <<posts, responses, raised>>

vars == <<args, call, query, posts, responses, raised, exit_code, printed, pc, data, branch_names, comparison_query, comparison_data,
          requests, inflight, stderr, saved, client, commit_nodes, page_info,
          cursor, fetched, sorted_committers, ahead_branches>>

----------------------------------------------------------------------------
(* Bounds of the model *)

\* branch lists have 0..MaxFew branches, or BranchCap-1 .. BranchCap+MaxOver
MaxFew == 2
MaxOver == 1

----------------------------------------------------------------------------
(* Values *)

None == [none |-> TRUE]

JStr(s) == [str |-> s]

IsNone(v) == v = None

HasKey(d, k) == k \in DOMAIN d

\* d[k] = v on a Python dict
SetKey(d, k, v) == (k :> v) @@ d

\* truth value of a dict-or-None
Truthy(d) == ~IsNone(d) /\ DOMAIN d # {}

Min(a, b) == IF a <= b THEN a ELSE b

----------------------------------------------------------------------------
(* Text *)

DigitChars == <<"0", "1", "2", "3", "4", "5", "6", "7", "8", "9">>

RECURSIVE NatStr(_)
NatStr(n) == IF n < 10 THEN <<DigitChars[n + 1]>>
             ELSE NatStr(n \div 10) \o <<DigitChars[(n % 10) + 1]>>

\* str(i) of a Python int
IntStr(i) == IF i < 0 THEN <<"-">> \o NatStr(0 - i) ELSE NatStr(i)

\* s.replace(old, new) for a one-character old
Replace(s, old, new) == [j \in 1..Len(s) |-> IF s[j] = old THEN new ELSE s[j]]

RefsHeads == <<"r", "e", "f", "s", "/", "h", "e", "a", "d", "s", "/">>

RefPrefix == <<"r", "e", "f", "_">>

\* list[:n]
Take(s, n) == SubSeq(s, 1, Min(Len(s), n))

----------------------------------------------------------------------------
(* The entity queries (get_org_query, get_repo_query, get_user_query)      *)
(*                                                                         *)
(* A query document, and the string literal it is formatted from, is the   *)
(* sequence of its lexemes, white space left out: a word, a punctuation    *)
(* mark, or a brace.  Two braces written next to each other in a literal   *)
(* are the one lexeme "{{" or "}}"; in the f-string grammar that is an     *)
(* escaped brace, and a lone "{" opens a replacement field.                *)

\* the sequences f[lo], ..., f[hi] joined
RECURSIVE ConcatRange(_, _, _)
ConcatRange(f, lo, hi) ==
    IF lo > hi THEN <<>>
    ELSE IF lo = hi THEN f[lo]
    ELSE LET mid == (lo + hi) \div 2
         IN  ConcatRange(f, lo, mid) \o ConcatRange(f, mid + 1, hi)

\* what the lexeme at j of an f-string literal contributes to its value:
\* an escaped brace is one brace, a replacement field {name} is the value of
\* name as it stands, anything else is itself
FPiece(template, j, env) ==
    CASE template[j] = "{{" -> <<"{">>
      [] template[j] = "}}" -> <<"}">>
      [] template[j] = "{"  -> <<>>
      [] template[j] = "}"  -> <<>>
      [] OTHER -> IF j > 1 /\ template[j - 1] = "{"
                  THEN env[template[j]]
                  ELSE <<template[j]>>

\* the value of the f-string literal, its replacement fields taken from env
FormatF(template, env) ==
    ConcatRange([j \in 1..Len(template) |-> FPiece(template, j, env)],
                1, Len(template))

\* the plain string literal of repo_handler.py:16-27
StargazersText ==
    <<"stargazerCount", "stargazers", "(", "last", ":", "10", ")", "{{",
      "totalCount", "nodes", "{{", "name", "login", "email", "company",
      "url", "}}", "}}">>

\* the f-string literal of repo_handler.py:29-214
RepoQueryTemplate ==
    <<"query", "{{", "repository", "(", "owner", ":", "\"", "{", "owner",
      "}", "\"", ",", "name", ":", "\"", "{", "repo_name", "}", "\"", ")",
      "{{", "id", "nameWithOwner", "description", "url", "homepageUrl",
      "mirrorUrl", "projectsUrl", "projectsV2", "(", "first", ":", "100",
      ")", "{{", "totalCount", "}}", "contactLinks", "{{", "name", "url",
      "about", "}}", "diskUsage", "hasWikiEnabled", "codeOfConduct", "{{",
      "name", "url", "}}", "hasVulnerabilityAlertsEnabled", "isArchived",
      "isBlankIssuesEnabled", "isDisabled", "isEmpty", "isInOrganization",
      "isLocked", "isMirror", "isPrivate", "isSecurityPolicyEnabled",
      "isTemplate", "isUserConfigurationRepository", "isFork",
      "hasProjectsEnabled", "hasIssuesEnabled", "pullRequests", "(", "last",
      ":", "100", ")", "{{", "totalCount", "nodes", "{{", "number",
      "author", "{{", "login", "url", "resourcePath", "}}", "bodyText",
      "permalink", "}}", "}}", "assignableUsers", "(", "last", ":", "100",
      ")", "{{", "totalCount", "nodes", "{{", "name", "login", "company",
      "location", "pronouns", "status", "{{", "message", "emoji", "}}",
      "topRepositories", "(", "last", ":", "100", ",", "orderBy", ":", "{{",
      "field", ":", "UPDATED_AT", ",", "direction", ":", "DESC", "}}", ")",
      "{{", "totalCount", "edges", "{{", "node", "{{", "name",
      "description", "url", "}}", "}}", "}}", "repositories", "(", "first",
      ":", "100", ",", "orderBy", ":", "{{", "field", ":", "UPDATED_AT",
      ",", "direction", ":", "DESC", "}}", ")", "{{", "totalCount", "edges",
      "{{", "node", "{{", "name", "}}", "}}", "}}", "gists", "(", "last",
      ":", "100", ",", "orderBy", ":", "{{", "field", ":", "CREATED_AT",
      ",", "direction", ":", "DESC", "}}", ")", "{{", "totalCount", "edges",
      "{{", "node", "{{", "name", "description", "url", "files", "{{",
      "encodedName", "language", "{{", "name", "}}", "size", "}}",
      "updatedAt", "}}", "}}", "}}", "}}", "}}", "issues", "(", "last", ":",
      "25", ")", "{{", "totalCount", "edges", "{{", "node", "{{", "number",
      "title", "author", "{{", "login", "}}", "bodyText", "bodyUrl",
      "createdAt", "lastEditedAt", "closed", "}}", "}}", "}}", "forkCount",
      "packages", "(", "last", ":", "100", ")", "{{", "totalCount", "}}",
      "releases", "(", "last", ":", "100", ")", "{{", "totalCount", "nodes",
      "{{", "name", "url", "author", "{{", "name", "login", "email", "}}",
      "createdAt", "description", "isDraft", "isLatest", "isPrerelease",
      "databaseId", "resourcePath", "}}", "}}", "{", "stargazers_section",
      "}", "defaultBranchRef", "{{", "name", "target", "{{", "...", "on",
      "Commit", "{{", "history", "{{", "totalCount", "}}", "}}", "}}", "}}",
      "object", "(", "expression", ":", "\"", "HEAD", "\"", ")", "{{",
      "...", "on", "Commit", "{{", "history", "(", "first", ":", "100", ")",
      "{{", "totalCount", "pageInfo", "{{", "endCursor", "hasNextPage",
      "}}", "nodes", "{{", "author", "{{", "name", "email", "user", "{{",
      "login", "}}", "}}", "}}", "}}", "}}", "}}", "refs", "(", "refPrefix",
      ":", "\"", "refs", "/", "heads", "/", "\"", ",", "first", ":", "100",
      ")", "{{", "totalCount", "nodes", "{{", "name", "target", "{{", "...",
      "on", "Commit", "{{", "oid", "}}", "}}", "}}", "}}", "}}", "}}">>

\* the f-string literal of org_handler.py:8-45
OrgQueryTemplate ==
    <<"query", "{{", "repositoryOwner", "(", "login", ":", "\"", "{",
      "org_name", "}", "\"", ")", "{{", "...", "on", "Organization", "{{",
      "repositories", "(", "first", ":", "100", ")", "{{", "totalCount",
      "pageInfo", "{{", "endCursor", "hasNextPage", "}}", "nodes", "{{",
      "id", "name", "stars", ":", "stargazerCount", "forks", ":",
      "forkCount", "created_at", ":", "createdAt", "organization", ":",
      "owner", "{{", "login", "}}", "repo_url", ":", "url",
      "defaultBranchRef", "{{", "target", "{{", "...", "on", "Commit", "{{",
      "history", "{{", "totalCount", "}}", "}}", "}}", "}}", "refs", "(",
      "refPrefix", ":", "\"", "refs", "/", "heads", "/", "\"", ",", "first",
      ":", "1", ")", "{{", "totalCount", "}}", "}}", "}}", "}}", "}}",
      "}}">>

\* the f-string literal of user_handler.py:9-146
UserQueryTemplate ==
    <<"query", "GetUserDetails", "{{", "user", "(", "login", ":", "\"", "{",
      "username", "}", "\"", ")", "{{", "login", "company", "email",
      "location", "followers", "{{", "totalCount", "}}", "following", "(",
      "first", ":", "100", ")", "{{", "totalCount", "nodes", "{{", "login",
      "name", "email", "url", "company", "location", "}}", "}}", "gists",
      "(", "first", ":", "100", ",", "orderBy", ":", "{{", "field", ":",
      "CREATED_AT", ",", "direction", ":", "DESC", "}}", ")", "{{",
      "totalCount", "edges", "{{", "node", "{{", "id", "name",
      "description", "url", "resourcePath", "isPublic", "isFork",
      "pushedAt", "createdAt", "updatedAt", "stargazerCount",
      "viewerHasStarred", "owner", "{{", "login", "id", "}}", "files", "{{",
      "name", "encodedName", "encoding", "extension", "isImage",
      "isTruncated", "language", "{{", "name", "}}", "size", "text", "}}",
      "comments", "(", "first", ":", "100", ")", "{{", "totalCount",
      "nodes", "{{", "id", "author", "{{", "login", "url", "}}", "bodyText",
      "createdAt", "updatedAt", "}}", "}}", "stargazers", "(", "first", ":",
      "100", ")", "{{", "totalCount", "nodes", "{{", "login", "name",
      "email", "url", "}}", "}}", "forks", "(", "first", ":", "100", ")",
      "{{", "totalCount", "nodes", "{{", "name", "url", "owner", "{{",
      "login", "}}", "}}", "}}", "}}", "}}", "}}", "gistComments", "(",
      "first", ":", "100", ")", "{{", "totalCount", "nodes", "{{", "author",
      "{{", "login", "url", "}}", "id", "body", "createdAt", "updatedAt",
      "gist", "{{", "id", "url", "}}", "}}", "}}", "repositories", "(",
      "first", ":", "100", ",", "orderBy", ":", "{{", "field", ":",
      "CREATED_AT", ",", "direction", ":", "DESC", "}}", ")", "{{",
      "totalCount", "pageInfo", "{{", "endCursor", "hasNextPage", "}}",
      "edges", "{{", "node", "{{", "name", "owner", "{{", "login", "}}",
      "id", "description", "diskUsage", "url", "sshUrl", "forkCount",
      "hasWikiEnabled", "homepageUrl", "isInOrganization", "isEmpty",
      "stargazerCount", "visibility", "isFork", "openGraphImageUrl", "}}",
      "}}", "}}", "}}", "}}">>

\* a builder whose stargazer sub-section does not depend on the flag
StargazersAlways(include_stargazers) == StargazersText

\* stargazers_section = "" ; if include_stargazers: stargazers_section = """..."""
stargazers_section(include_stargazers) ==
    IF include_stargazers THEN StargazersText ELSE <<>>

get_repo_query(owner, repo_name, default_branch, include_stargazers) ==
    FormatF(RepoQueryTemplate,
            [owner |-> owner,
             repo_name |-> repo_name,
             stargazers_section |-> stargazers_section(include_stargazers)])

get_org_query(org_name) == FormatF(OrgQueryTemplate, [org_name |-> org_name])

get_user_query(username) == FormatF(UserQueryTemplate, [username |-> username])

----------------------------------------------------------------------------
(* GitHubGraphQLClient.query (client.py:18-30) *)

\* an HTTP response: its status code and its decoded JSON body
HttpResponse(status, body) == [status |-> status, body |-> body]

\* the response that carries a result tree
HttpOk(tree) == HttpResponse(200, [data |-> tree])

\* entries of an errors array; the last one has no message
ErrorEntries ==
    {[message |-> <<"m", "1">>], [message |-> <<"m", ";", " ", "2">>],
     [type |-> <<"T">>]}

\* the errors arrays a body may hold
ErrorLists ==
    {<<>>} \cup {<<e>> : e \in ErrorEntries}
           \cup {<<e, f>> : e \in ErrorEntries, f \in ErrorEntries}

\* the failures a server is taken to answer with: statuses that are not a
\* success, errors arrays under status 200, and whether such an array may
\* come together with data
AllFaults == [statuses |-> {401, 403, 500}, errors |-> ErrorLists, partial |-> TRUE]

FewFaults == [statuses |-> {500}, errors |-> {<<[message |-> <<"m", "1">>]>>},
              partial |-> FALSE]

NoFaults == [statuses |-> {}, errors |-> {}, partial |-> FALSE]

WithErrors(response, errors) ==
    HttpResponse(response.status, [data |-> response.body.data, errors |-> errors])

\* the responses a post may get: those of oks, or a failure
Answers(oks, faults) ==
    oks
    \cup {HttpResponse(st, [message |-> <<"x">>]) : st \in faults.statuses}
    \cup {HttpResponse(200, [errors |-> es]) : es \in faults.errors}
    \cup (IF faults.partial
          THEN {WithErrors(r, es) : r \in oks, es \in faults.errors}
          ELSE {})

\* a client that sends every payload twice
query_posts_twice(query_text) == <<[query |-> query_text], [query |-> query_text]>>

\* payload = {"query": query}; requests.post(self.api_url, ..., json=payload):
\* the payloads one call of client.query posts
query_posts(query_text) == <<[query |-> query_text]>>

\* response.raise_for_status() raises for the statuses 400..599
raise_for_status(status) == 400 <= status /\ status < 600

HTTPError(response) ==
    [type |-> "HTTPError", status_code |-> response.status, message |-> <<>>]

Exception(message) ==
    [type |-> "Exception", status_code |-> 0, message |-> message]

GraphQLErrorsPrefix ==
    <<"G", "r", "a", "p", "h", "Q", "L", " ", "e", "r", "r", "o", "r", "s",
      ":", " ">>

UnknownError ==
    <<"U", "n", "k", "n", "o", "w", "n", " ", "e", "r", "r", "o", "r">>

\* sep.join(texts)
RECURSIVE Join(_, _)
Join(texts, sep) ==
    IF texts = <<>> THEN <<>>
    ELSE IF Len(texts) = 1 THEN texts[1]
    ELSE texts[1] \o sep \o Join(Tail(texts), sep)

\* [err.get('message', 'Unknown error') for err in data['errors']]
error_messages(errors) ==
    [j \in 1..Len(errors) |->
        IF HasKey(errors[j], "message") THEN errors[j].message ELSE UnknownError]

Returned(value) == [raised |-> FALSE, value |-> value]

Raised(exc) == [raised |-> TRUE, exc |-> exc]

\* a client that returns the body whenever it holds data
client_query_lenient(response) ==
    IF raise_for_status(response.status) THEN Raised(HTTPError(response))
    ELSE IF HasKey(response.body, "errors") /\ ~HasKey(response.body, "data")
         THEN Raised(Exception(GraphQLErrorsPrefix
                  \o Join(error_messages(response.body.errors), <<";", " ">>)))
         ELSE Returned(response.body)

\* what client.query does with the response to its post: it raises, or it
\* returns the decoded body
client_query(response) ==
    IF raise_for_status(response.status) THEN Raised(HTTPError(response))
    ELSE IF HasKey(response.body, "errors")
         THEN Raised(Exception(GraphQLErrorsPrefix
                  \o Join(error_messages(response.body.errors), <<";", " ">>)))
         ELSE Returned(response.body)

----------------------------------------------------------------------------
(* build_branch_comparison_query *)

BranchCap == 50

\* an alias numbered from one
BuildAliasOneBased(i) == RefPrefix \o IntStr(i + 1)

\* the alias of the sub-selection at zero-based index i
BuildAlias(i) == Replace(Replace(RefPrefix \o IntStr(i), "-", "_"), ".", "_")

\* a builder without the cap
BuildUncapped(base_branch, names) ==
    [j \in 1..Len(names) |->
        [alias   |-> BuildAlias(j - 1),
         ref     |-> RefsHeads \o names[j],
         headRef |-> RefsHeads \o base_branch]]

\* a builder that puts one branch into a query
BuildFirstOnly(base_branch, names) ==
    [j \in 1..Min(Len(names), 1) |->
        [alias   |-> BuildAlias(j - 1),
         ref     |-> RefsHeads \o names[j],
         headRef |-> RefsHeads \o base_branch]]

\* the query text, as the list of its aliased sub-selections
\*   alias: ref(qualifiedName: ref) { compare(headRef: headRef) {aheadBy behindBy} }
build_branch_comparison_query(base_branch, names) ==
    LET kept == Take(names, BranchCap)
        head == RefsHeads \o base_branch
    IN  [j \in 1..Len(kept) |->
            [alias   |-> BuildAlias(j - 1),
             ref     |-> RefsHeads \o kept[j],
             headRef |-> head]]

----------------------------------------------------------------------------
(* The remote repository, as the server answers about it *)

\* the name of the branch with identity k: "v<k/10>.<k%10>" or "fix-<k>"
NameOf(k) == IF k = 0 THEN <<"m", "a", "i", "n">>
             ELSE IF k % 2 = 0
                  THEN <<"v">> \o NatStr(k \div 10) \o <<".">> \o NatStr(k % 10)
                  ELSE <<"f", "i", "x", "-">> \o NatStr(k)

BranchCounts == (0..MaxFew) \cup ((BranchCap - 1)..(BranchCap + 1 + MaxOver))

DigitVal == [c \in {DigitChars[d] : d \in 1..10} |->
                CHOOSE d \in 0..9 : DigitChars[d + 1] = c]

RECURSIVE ParseNat(_, _)
ParseNat(s, acc) ==
    IF s = <<>> THEN acc
    ELSE ParseNat(Tail(s), IF Head(s) \in DOMAIN DigitVal
                           THEN 10 * acc + DigitVal[Head(s)] ELSE acc)

\* the branch a qualified name refs/heads/<name> stands for: the number the
\* name spells
RefId(ref) == ParseNat(SubSeq(ref, Len(RefsHeads) + 1, Len(ref)), 0)

BranchNode(k) == [name |-> NameOf(k), target |-> [oid |-> k]]

\* refs.nodes of a repository with n branches, in the server's order
RefNodes(n, descending) ==
    [j \in 1..n |-> BranchNode(IF descending THEN n + 1 - j ELSE j)]

EmptyHistory ==
    [history |-> [nodes |-> <<>>,
                  pageInfo |-> [hasNextPage |-> FALSE, endCursor |-> None]]]

\* primary results whose branch lists vary
CompareTrees ==
    { [isFork |-> f,
       defaultBranchRef |-> [name |-> NameOf(d)],
       refs |-> [nodes |-> RefNodes(n, desc)],
       object |-> EmptyHistory] :
      f \in BOOLEAN, d \in {0, 1, 2}, n \in BranchCounts, desc \in BOOLEAN }

Outcomes == {"absent", "null", "nocompare", "comparenull", "zero", "value"}

\* what the server holds for branch k
CompareOf(k) == [aheadBy |-> k, behindBy |-> k % 3]

\* the value returned under an alias whose ref is branch k
RefData(outcome, k) ==
    CASE outcome = "null"        -> None
      [] outcome = "nocompare"   -> [id |-> k]
      [] outcome = "comparenull" -> [compare |-> None]
      [] outcome = "zero"        -> [compare |-> [aheadBy |-> 0, behindBy |-> 0]]
      [] OTHER                   -> [compare |-> CompareOf(k)]

\* the repository object of the comparison response to query q: the server
\* answers each sub-selection about the ref it names, under the alias given;
\* the outcome for branch k is pat[k is even]
Respond(q, pat) ==
    LET ids == [j \in 1..Len(q) |-> RefId(q[j].ref)]
        pos(a) == CHOOSE j \in 1..Len(q) : q[j].alias = a
        answer(j) == RefData(pat[ids[j] % 2 = 0], ids[j])
    IN  [a \in {q[j].alias : j \in {x \in 1..Len(q) : pat[ids[x] % 2 = 0] # "absent"}}
            |-> answer(pos(a))]

\* entries nobody asked for, under the aliases that would follow those of q
Unsolicited(q) ==
    [a \in {RefPrefix \o NatStr(i) : i \in Len(q)..(Len(q) + MaxOver + 1)} |->
        [compare |-> [aheadBy |-> 99, behindBy |-> 99]]]

----------------------------------------------------------------------------
(* main: the merge of the comparison response (gitsome.py:136-147) *)

\* the merger deriving its aliases from one
MergeAliasOneBased(i) == RefPrefix \o IntStr(i + 1)

\* the alias main derives again for candidate i
MergeAlias(i) == Replace(Replace(RefPrefix \o IntStr(i), "-", "_"), ".", "_")

\* adding the counts to a compare entry already there
AttachAdding(nodes, i, name, cmp) ==
    IF \E j \in 1..Len(nodes) : nodes[j].name = name
    THEN LET j == CHOOSE x \in 1..Len(nodes) :
                      /\ nodes[x].name = name
                      /\ \A y \in 1..(x - 1) : nodes[y].name # name
             old == IF HasKey(nodes[j], "compare") /\ ~IsNone(nodes[j].compare)
                       /\ ~IsNone(cmp)
                    THEN [aheadBy |-> nodes[j].compare.aheadBy + cmp.aheadBy,
                          behindBy |-> nodes[j].compare.behindBy + cmp.behindBy]
                    ELSE cmp
         IN  [nodes EXCEPT ![j] = SetKey(nodes[j], "compare", old)]
    ELSE nodes

\* an attachment that builds the node anew from its name and the comparison
AttachRebuilding(nodes, i, name, cmp) ==
    IF \E j \in 1..Len(nodes) : nodes[j].name = name
    THEN LET j == CHOOSE x \in 1..Len(nodes) :
                      /\ nodes[x].name = name
                      /\ \A y \in 1..(x - 1) : nodes[y].name # name
         IN  [nodes EXCEPT ![j] = [name |-> name, compare |-> cmp]]
    ELSE nodes

\* for branch in branch_nodes: if name matches: branch['compare'] = cmp; break
\* (i is the candidate's index, which the code does not use here)
Attach(nodes, i, name, cmp) ==
    IF \E j \in 1..Len(nodes) : nodes[j].name = name
    THEN LET j == CHOOSE x \in 1..Len(nodes) :
                      /\ nodes[x].name = name
                      /\ \A y \in 1..(x - 1) : nodes[y].name # name
         IN  [nodes EXCEPT ![j] = SetKey(nodes[j], "compare", cmp)]
    ELSE nodes

\* a merge that takes a missing or null answer for a comparison of zero
MergeOneDefaultZero(nodes, names, comparisons, i) ==
    LET alias == MergeAlias(i)
    IN  IF /\ alias \in DOMAIN comparisons
           /\ Truthy(comparisons[alias])
           /\ HasKey(comparisons[alias], "compare")
        THEN Attach(nodes, i, names[i + 1], comparisons[alias].compare)
        ELSE Attach(nodes, i, names[i + 1], [aheadBy |-> 0, behindBy |-> 0])

\* one iteration of the merge loop, for candidate i
MergeOne(nodes, names, comparisons, i) ==
    LET alias == MergeAlias(i)
    IN  IF /\ alias \in DOMAIN comparisons
           /\ Truthy(comparisons[alias])
           /\ HasKey(comparisons[alias], "compare")
        THEN Attach(nodes, i, names[i + 1], comparisons[alias].compare)
        ELSE nodes

\* the loop of gitsome.py:137-147 from candidate i on; with no branch node
\* there is nothing to attach to (the test also makes TLC evaluate the
\* accumulated node list at every iteration)
RECURSIVE MergeFrom(_, _, _, _)
MergeFrom(nodes, names, comparisons, i) ==
    IF nodes = <<>> \/ i >= Len(names) THEN nodes
    ELSE MergeFrom(MergeOne(nodes, names, comparisons, i), names, comparisons, i + 1)

\* a merge that walks the whole candidate list
MergeUncapped(nodes, names, comparisons) ==
    MergeFrom(nodes, names, comparisons, 0)

\* for i, branch_name in enumerate(branch_names[:50]): ...
Merge(nodes, names, comparisons) ==
    MergeFrom(nodes, Take(names, BranchCap), comparisons, 0)

----------------------------------------------------------------------------
(* main: the command line, the primary query, the comparison round trip *)

Request(kind, body) == [kind |-> kind, body |-> body]

\* candidates that keep the default branch
CandidatesAll(nodes, default_branch) == [j \in 1..Len(nodes) |-> nodes[j].name]

\* [b.get('name') for b in branch_nodes if b.get('name') != default_branch]
Candidates(nodes, default_branch) ==
    LET kept == SelectSeq(nodes, LAMBDA b : b.name # default_branch)
    IN  [j \in 1..Len(kept) |-> kept[j].name]

\* a comparison step taken for every repository that has branches
ComparesAnyRepository(tree) == tree.refs.nodes # <<>>

\* if branch_nodes and repo_data.get('isFork'): (gitsome.py:129)
ShouldCompare(tree) == tree.refs.nodes # <<>> /\ tree.isFork

\* `repo` with the defaults of its arguments (gitsome.py:68-71)
DefaultRepoArgs ==
    [command |-> "repo",
     owner |-> <<"t", "h", "e", "s", "a", "v", "a", "n", "t", "4", "2">>,
     repo_name |-> <<"g", "i", "t", "s", "o", "m", "e">>,
     no_save |-> FALSE]

\* the command lines the parser accepts
CommandLines ==
    {[command |-> "org", org_name |-> <<"o">>, no_save |-> b] : b \in BOOLEAN}
    \cup {[command |-> "repo", owner |-> <<"o">>, repo_name |-> <<"r">>,
           no_save |-> b] : b \in BOOLEAN}
    \cup {[command |-> "user", username |-> <<"u">>, no_save |-> b,
           print_gists |-> g] : b \in BOOLEAN, g \in BOOLEAN}

\* the state when main() has parsed its arguments and made its client
Start(lines, calls) ==
    /\ args \in lines
    /\ call \in calls
    /\ query = <<>>
    /\ posts = <<>>
    /\ responses = <<>>
    /\ raised = <<>>
    /\ exit_code = <<>>
    /\ printed = <<>>
    /\ pc = "start"
    /\ data = None
    /\ branch_names = <<>>
    /\ comparison_query = <<>>
    /\ comparison_data = <<>>
    /\ requests = <<>>
    /\ inflight = None
    /\ stderr = <<>>
    /\ saved = <<>>
    /\ client = FALSE
    /\ commit_nodes = <<>>
    /\ page_info = None
    /\ cursor = None
    /\ fetched = <<>>
    /\ sorted_committers = <<>>
    /\ ahead_branches = <<>>

Init == Start({DefaultRepoArgs}, {None})

\* the organizations and users a primary result may hold
OwnerTrees ==
    IF args.command = "org"
    THEN {[repositoryOwner |-> None],
          [repositoryOwner |-> [repositories |-> [totalCount |-> 0, nodes |-> <<>>]]]}
    ELSE {[user |-> None], [user |-> [login |-> args.username]]}

\* the primary query of the command (gitsome.py:108, 120, 160)
PrimaryText ==
    CASE args.command = "org"  -> get_org_query(args.org_name)
      [] args.command = "repo" -> get_repo_query(args.owner, args.repo_name, None, FALSE)
      [] args.command = "user" -> get_user_query(args.username)

\* the responses the primary query may get
PrimaryAnswers(trees, faults) ==
    Answers(IF args.command = "repo"
            THEN {HttpOk([repository |-> t]) : t \in trees}
            ELSE {HttpOk(t) : t \in OwnerTrees},
            faults)

\* gitsome.py:120-126: query = get_repo_query(owner, repo_name);
\* data = client.query(query) returns a tree
PrimaryQuery(trees, faults) ==
    /\ pc = "start"
    /\ IsNone(call)
    /\ args.command = "repo"
    /\ query' = PrimaryText
    /\ requests' = Append(requests, Request("repo", query'))
    /\ posts' = posts \o query_posts(query')
    /\ \E resp \in PrimaryAnswers(trees, faults) :
          /\ ~client_query(resp).raised
          /\ responses' = Append(responses, resp)
          /\ data' = client_query(resp).value.data.repository
    /\ pc' = "compare"
    /\ fetched' = IF Truthy(data'.object) /\ HasKey(data'.object, "history")
                  THEN <<data'.object.history.nodes>> ELSE <<>>
    /\ UNCHANGED <<args, call, raised, exit_code, printed, compareVars,
                   inflight, stderr, saved, client, commit_nodes, page_info,
                   cursor, sorted_committers, ahead_branches>>

\* gitsome.py:108-109, 160-161: the primary query of org and user returns
OwnerQuery(faults) ==
    /\ pc = "start"
    /\ IsNone(call)
    /\ args.command \in {"org", "user"}
    /\ query' = PrimaryText
    /\ requests' = Append(requests, Request(args.command, query'))
    /\ posts' = posts \o query_posts(query')
    /\ \E resp \in PrimaryAnswers({}, faults) :
          /\ ~client_query(resp).raised
          /\ responses' = Append(responses, resp)
          /\ data' = client_query(resp).value.data
    /\ pc' = "save_owner"
    /\ UNCHANGED <<args, call, raised, exit_code, printed, compareVars,
                   inflight, stderr, saved, historyVars>>

\* the lines the handlers of gitsome.py:171-187 print for an exception
ErrorLines(exc, response) ==
    IF exc.type = "HTTPError"
    THEN <<"Error: HTTP">>
         \o (CASE exc.status_code = 401 ->
                    <<"Authentication failed. Check your GITHUB_TOKEN.">>
               [] exc.status_code = 403 ->
                    <<"Rate limit exceeded or forbidden. Check your token permissions.">>
               [] OTHER -> <<>>)
         \o (IF HasKey(response.body, "errors")
             THEN [j \in 1..Len(response.body.errors) |-> "  message"]
             ELSE <<>>)
    ELSE <<"Error:">>

\* handlers that leave with status 0 after an error that is not an HTTPError
main_except_zero(exc, response) ==
    [stderr |-> ErrorLines(exc, response),
     exit_code |-> IF exc.type = "HTTPError" THEN <<1>> ELSE <<0>>]

\* except requests.exceptions.HTTPError ... sys.exit(1) /
\* except Exception ... sys.exit(1) (gitsome.py:171-187)
main_except(exc, response) ==
    [stderr |-> ErrorLines(exc, response), exit_code |-> <<1>>]

\* gitsome.py:109, 121, 161 and 171-187: client.query raises in the primary
\* query; the handlers of main print the error and exit with status 1
PrimaryQueryError(trees, faults) ==
    /\ pc = "start"
    /\ IsNone(call)
    /\ query' = PrimaryText
    /\ requests' = Append(requests, Request(args.command, query'))
    /\ posts' = posts \o query_posts(query')
    /\ \E resp \in PrimaryAnswers(trees, faults) :
          /\ client_query(resp).raised
          /\ responses' = Append(responses, resp)
          /\ raised' = Append(raised, [request |-> Len(requests'),
                                       exc |-> client_query(resp).exc])
          /\ stderr' = stderr \o main_except(client_query(resp).exc, resp).stderr
          /\ exit_code' = main_except(client_query(resp).exc, resp).exit_code
    /\ pc' = "exit"
    /\ UNCHANGED <<args, call, printed, data, compareVars, inflight, saved,
                   historyVars>>

\* gitsome.py:111-115, 163-167: the JSON snapshot and the Markdown report of
\* an organization or a user (the report is empty when the owner is null)
SaveOwner ==
    /\ pc = "save_owner"
    /\ saved' = IF args.no_save THEN saved
                ELSE saved \o <<[file |-> "json", content |-> data],
                                [file |-> "md",
                                 content |-> IF \E k \in DOMAIN data : IsNone(data[k])
                                             THEN <<>> ELSE <<data>>]>>
    /\ pc' = "print_owner"
    /\ UNCHANGED <<commandVars, clientVars, data, compareVars, requests,
                   inflight, stderr, historyVars>>

\* gitsome.py:117, 169: print_org_info / print_user_info, then main returns
PrintOwner ==
    /\ pc = "print_owner"
    /\ printed' = Append(printed, args.command)
    /\ exit_code' = <<0>>
    /\ pc' = "done"
    /\ UNCHANGED <<args, call, query, clientVars, data, compareVars, requests,
                   inflight, stderr, saved, historyVars>>

\* gitsome.py:129-134: the comparison query is built and sent
SendCompare ==
    /\ pc = "compare"
    /\ ShouldCompare(data)
    /\ Candidates(data.refs.nodes, data.defaultBranchRef.name) # <<>>
    /\ branch_names' = Candidates(data.refs.nodes, data.defaultBranchRef.name)
    /\ comparison_query' =
          build_branch_comparison_query(data.defaultBranchRef.name, branch_names')
    /\ requests' = Append(requests, Request("compare", comparison_query'))
    /\ posts' = posts \o query_posts(comparison_query')
    /\ inflight' = Request("compare", comparison_query')
    /\ pc' = "wait_compare"
    /\ UNCHANGED <<commandVars, responses, raised, data, comparison_data,
                   stderr, saved, historyVars>>

\* gitsome.py:129-131: no branch nodes, not a fork, or no candidate
SkipCompare ==
    /\ pc = "compare"
    /\ ~(ShouldCompare(data)
         /\ Candidates(data.refs.nodes, data.defaultBranchRef.name) # <<>>)
    /\ branch_names' = IF ShouldCompare(data)
                       THEN Candidates(data.refs.nodes, data.defaultBranchRef.name)
                       ELSE branch_names
    /\ pc' = "save"
    /\ UNCHANGED <<commandVars, clientVars, data, comparison_query,
                   comparison_data, requests, inflight, stderr, saved,
                   historyVars>>

\* the responses the comparison query q may get
CompareAnswers(q, faults) ==
    Answers({HttpOk([repository |-> IF extra
                                    THEN Respond(q, pat) @@ Unsolicited(q)
                                    ELSE Respond(q, pat)]) :
               pat \in [BOOLEAN -> Outcomes], extra \in BOOLEAN},
            faults)

\* gitsome.py:134-147: the comparison response arrives and is merged
RecvCompare(faults) ==
    /\ pc = "wait_compare"
    /\ \E resp \in CompareAnswers(inflight.body, faults) :
          /\ ~client_query(resp).raised
          /\ responses' = Append(responses, resp)
          /\ comparison_data' = client_query(resp).value.data.repository
    /\ data' = [data EXCEPT !.refs.nodes =
                   Merge(data.refs.nodes, branch_names, comparison_data')]
    /\ inflight' = None
    /\ pc' = "save"
    /\ UNCHANGED <<commandVars, posts, raised, branch_names, comparison_query,
                   requests, stderr, saved, historyVars>>

\* a comparison step without a handler of its own: the exception reaches
\* the handlers of main
compare_propagates(exc, response) ==
    [stderr |-> main_except(exc, response).stderr,
     exit_code |-> main_except(exc, response).exit_code,
     pc |-> "exit"]

\* except Exception as e: print("  [DEBUG] Error fetching branch
\* comparisons: ...") (gitsome.py:148-149); main goes on below the if
compare_except(exc, response) ==
    [stderr |-> <<"[DEBUG] Error fetching branch comparisons">>,
     exit_code |-> <<>>,
     pc |-> "save"]

\* gitsome.py:134 and 148-149: client.query raised; the merge is skipped and
\* the diagnostic is printed (followed, in the program, by the exception's
\* text)
RecvCompareError(faults) ==
    /\ pc = "wait_compare"
    /\ \E resp \in CompareAnswers(inflight.body, faults) :
          /\ client_query(resp).raised
          /\ responses' = Append(responses, resp)
          /\ raised' = Append(raised, [request |-> Len(requests),
                                       exc |-> client_query(resp).exc])
          /\ stderr' = stderr \o compare_except(client_query(resp).exc, resp).stderr
          /\ exit_code' = exit_code \o compare_except(client_query(resp).exc, resp).exit_code
          /\ pc' = compare_except(client_query(resp).exc, resp).pc
    /\ inflight' = None
    /\ UNCHANGED <<args, call, query, printed, posts, data, compareVars,
                   requests, saved, historyVars>>

NextCompare ==
    \/ PrimaryQuery(CompareTrees, NoFaults)
    \/ SendCompare
    \/ SkipCompare
    \/ RecvCompare(FewFaults)
    \/ RecvCompareError(FewFaults)

SpecCompare == Init /\ [][NextCompare]_vars

----------------------------------------------------------------------------
(* The commit history, as the server hands it out *)

\* no accumulated history holds more commits than this
MaxCommits == 3
\* the driver is followed for at most this many continuation requests
MaxRequests == 2

Al   == [name  |-> <<"A", "l">>, email |-> <<"a", "@", "x">>,
         user  |-> [login |-> <<"a">>]]
Ali  == [name  |-> <<"A", "l", "i">>, email |-> <<"a", "@", "y">>,
         user  |-> [login |-> <<"a">>]]
Bo   == [name  |-> <<"B", "o">>, email |-> <<"b", "@", "x">>,
         user  |-> [login |-> <<"b">>]]
Cy   == [name  |-> <<"c">>, email |-> <<"c", "@", "x">>, user |-> None]

Authors == {Al, Ali, Bo, Cy}

Commit(a) == [author |-> a]

Commits == {Commit(a) : a \in Authors}

RECURSIVE SeqsOfLen(_, _)
SeqsOfLen(S, n) ==
    IF n = 0 THEN {<<>>}
    ELSE {Append(q, x) : q \in SeqsOfLen(S, n - 1), x \in S}

\* the pages of at most n commits
Pages(n) == UNION {SeqsOfLen(Commits, k) : k \in 0..n}

\* the history of section 8.5 of the specification: a,a,a,b,b,b,b,b,c,c,c,c,c
SamplePage ==
    [j \in 1..13 |-> Commit(IF j <= 3 THEN Al ELSE IF j <= 8 THEN Bo ELSE Cy)]

\* a login spelled like the "name <email>" of Cy
Cz   == [name  |-> <<"C">>, email |-> <<"c", "@", "z">>,
         user  |-> [login |-> <<"c", " ", "<", "c", "@", "x", ">">>]]

\* a commit of Cy and a commit of Cz
CollisionPage == <<Commit(Cy), Commit(Cz)>>

\* more committers than a report ranks
ManyCommitters == 11

\* the k-th of many authors without a login
Nobody(k) == [name |-> <<"n">> \o NatStr(k), email |-> <<"n", "@", "x">>, user |-> None]

\* two commits of the first author, then one commit of each of the others
ManyPage == [j \in 1..(ManyCommitters + 1) |-> Commit(Nobody(IF j = 1 THEN 1 ELSE j - 1))]

\* the cursor after n commits
CursorAt(n) == JStr(NatStr(n))

\* the pageInfo a page may come with, n commits having been handed out
PageInfos(n) ==
    {[hasNextPage |-> FALSE, endCursor |-> CursorAt(n)]}
    \cup {[hasNextPage |-> TRUE, endCursor |-> c] :
            c \in {None, JStr(<<>>), CursorAt(n)}}

NoHistoryObject == [id |-> <<"x">>]

TwoBranches == [nodes |-> RefNodes(2, FALSE)]

\* primary results whose commit histories vary
HistoryTrees ==
    { [isFork |-> FALSE,
       defaultBranchRef |-> [name |-> NameOf(1)],
       refs |-> TwoBranches,
       object |-> o] : o \in {None, NoHistoryObject} }
    \cup
    UNION { { [isFork |-> FALSE,
               defaultBranchRef |-> [name |-> NameOf(1)],
               refs |-> TwoBranches,
               object |-> [history |-> [nodes |-> page, pageInfo |-> pi]]] :
              pi \in PageInfos(Len(page)) } :
            page \in Pages(MaxCommits) \cup {SamplePage, CollisionPage, ManyPage} }

\* the repository objects a continuation response may hold when n commits
\* have been handed out
PageResponses(n) ==
    { [object |-> o] : o \in {None, NoHistoryObject} }
    \cup
    UNION { { [object |-> [history |-> [nodes |-> page, pageInfo |-> pi]]] :
              pi \in PageInfos(n + Len(page)) } :
            page \in {p \in Pages(MaxCommits) : n + Len(p) <= MaxCommits} }

----------------------------------------------------------------------------
(* The committer aggregation (repo_handler.py:496-513 and 291-308) *)

\* author.get('user', {}).get('login') if author.get('user') else None
UserLogin(author) ==
    IF Truthy(author.user) THEN JStr(author.user.login) ELSE None

\* truth value of a string-or-None
StrTruthy(v) == ~IsNone(v) /\ v.str # <<>>

\* a key that ignores the login
KeyNameEmail(commit) ==
    commit.author.name \o <<" ", "<">> \o commit.author.email \o <<">">>

\* key = user_login if user_login else f"{author_name} <{author_email}>"
KeyOf(commit) ==
    IF StrTruthy(UserLogin(commit.author))
    THEN UserLogin(commit.author).str
    ELSE commit.author.name \o <<" ", "<">> \o commit.author.email \o <<">">>

\* an entry that takes the email and login of the latest commit
CountLatestWins(stats, commit) ==
    IF \E j \in 1..Len(stats) : stats[j].key = KeyOf(commit)
    THEN LET j == CHOOSE x \in 1..Len(stats) : stats[x].key = KeyOf(commit)
         IN  [stats EXCEPT ![j] = [key   |-> stats[j].key,
                                   count |-> stats[j].count + 1,
                                   email |-> commit.author.email,
                                   login |-> UserLogin(commit.author)]]
    ELSE Append(stats, [key   |-> KeyOf(commit),
                        count |-> 1,
                        email |-> commit.author.email,
                        login |-> UserLogin(commit.author)])

\* if key not in committer_stats: committer_stats[key] = {count: 0, email, login}
\* committer_stats[key]['count'] += 1
\* (committer_stats, a dict, is the list of its items in insertion order)
CountOne(stats, commit) ==
    IF \E j \in 1..Len(stats) : stats[j].key = KeyOf(commit)
    THEN LET j == CHOOSE x \in 1..Len(stats) : stats[x].key = KeyOf(commit)
         IN  [stats EXCEPT ![j].count = @ + 1]
    ELSE Append(stats, [key   |-> KeyOf(commit),
                        count |-> 1,
                        email |-> commit.author.email,
                        login |-> UserLogin(commit.author)])

\* for commit in commit_nodes: ...
RECURSIVE CountFrom(_, _, _)
CountFrom(stats, commits, i) ==
    IF i > Len(commits) THEN stats
    ELSE CountFrom(CountOne(stats, commits[i]), commits, i + 1)

committer_stats(commits) == CountFrom(<<>>, commits, 1)

\* an item put before the items of equal count
InsertBeforeEqual(sorted, item) ==
    LET before == Cardinality({j \in 1..Len(sorted) : sorted[j].count > item.count})
    IN  SubSeq(sorted, 1, before) \o <<item>> \o SubSeq(sorted, before + 1, Len(sorted))

\* an item put into a list sorted by count descending, after the items of
\* equal count
InsertSorted(sorted, item) ==
    LET before == Cardinality({j \in 1..Len(sorted) : sorted[j].count >= item.count})
    IN  SubSeq(sorted, 1, before) \o <<item>> \o SubSeq(sorted, before + 1, Len(sorted))

RECURSIVE SortFrom(_, _, _)
SortFrom(sorted, items, i) ==
    IF i > Len(items) THEN sorted
    ELSE SortFrom(InsertSorted(sorted, items[i]), items, i + 1)

\* a sort that keeps the ten entries with the most commits
SortedTopTen(items) == Take(SortFrom(<<>>, items, 1), 10)

\* sorted(committer_stats.items(), key=lambda x: x[1]['count'], reverse=True):
\* Python's sort is stable, also with reverse=True
SortedByCount(items) == SortFrom(<<>>, items, 1)

Ranking(commits) == SortedByCount(committer_stats(commits))

----------------------------------------------------------------------------
(* main: saving, and print_repo_info *)

\* while cursor is not None:
CursorNotNone(c) == ~IsNone(c)

CursorTruthy(c) == StrTruthy(c)

\* commit_nodes.extend(nodes), the new page put in front
ExtendInFront(nodes, page) == page \o nodes

\* commit_nodes.extend(nodes)
Extend(nodes, page) == nodes \o page

\* a driver that keeps its cursor when the fetch fails
CursorKept(c) == c

\* cursor = None in the except clause (repo_handler.py:494)
CursorOnError(c) == None

\* the commit records of the tree, as generate_markdown_report reads them
TreeCommits(tree) ==
    IF Truthy(tree.object) /\ HasKey(tree.object, "history")
    THEN tree.object.history.nodes
    ELSE <<>>

\* gitsome.py:151-155: the JSON snapshot and the Markdown report are written
\* (the report ranks the top 10 committers of the tree's history)
Save ==
    /\ pc = "save"
    /\ saved' = IF args.no_save THEN saved
                ELSE saved \o <<[file |-> "json", content |-> data],
                                [file |-> "md",
                                 content |-> Take(Ranking(TreeCommits(data)), 10)]>>
    /\ pc' = "print"
    /\ UNCHANGED <<commandVars, clientVars, data, compareVars, requests,
                   inflight, stderr, historyVars>>

\* a driver that paginates whether or not it was given a client
PaginatesWithoutClient(has_client, first_page_info) == first_page_info.hasNextPage

\* if client and page_info.get('hasNextPage'):
ShouldPaginate(has_client, first_page_info) ==
    has_client /\ first_page_info.hasNextPage

\* gitsome.py:157 and repo_handler.py:383-450: print_repo_info is entered,
\* prints the repository and reads the first page from the tree
StartPagination(clients) ==
    /\ pc = "print"
    /\ \E c \in clients : client' = c
    /\ printed' = Append(printed, "repo")
    /\ IF Truthy(data.object) /\ HasKey(data.object, "history")
       THEN /\ commit_nodes' = data.object.history.nodes
            /\ page_info' = data.object.history.pageInfo
            /\ cursor' = IF ShouldPaginate(client', page_info')
                         THEN page_info'.endCursor ELSE cursor
            /\ pc' = IF ShouldPaginate(client', page_info') /\ CursorTruthy(cursor')
                     THEN "loop" ELSE "aggregate"
       ELSE /\ commit_nodes' = <<>>
            /\ pc' = "aggregate"
            /\ UNCHANGED <<page_info, cursor>>
    /\ UNCHANGED <<args, call, query, exit_code, clientVars, data, compareVars,
                   requests, inflight, stderr, saved, fetched,
                   sorted_committers, ahead_branches>>

PageRequests == {r \in 1..Len(requests) : requests[r].kind = "page"}

\* repo_handler.py:451-479: while cursor: the next page is requested (the
\* pagination query is written as the cursor it carries)
SendPage ==
    /\ pc = "loop"
    /\ CursorTruthy(cursor)
    /\ Cardinality(PageRequests) < MaxRequests
    /\ requests' = Append(requests, Request("page", cursor.str))
    /\ posts' = posts \o query_posts(cursor.str)
    /\ inflight' = Request("page", cursor.str)
    /\ pc' = "wait_page"
    /\ UNCHANGED <<commandVars, responses, raised, data, compareVars, stderr,
                   saved, historyVars>>

\* the responses a continuation request may get when n commits have been
\* handed out
PageAnswers(n, faults) ==
    Answers({HttpOk([repository |-> r]) : r \in PageResponses(n)}, faults)

\* a driver that goes on from the cursor it already holds
CursorStale(c, new_page_info) ==
    IF new_page_info.hasNextPage THEN c ELSE None

\* a driver that stops when the server hands back the cursor it was sent
CursorUnlessRepeated(c, new_page_info) ==
    IF new_page_info.hasNextPage /\ new_page_info.endCursor # c
    THEN new_page_info.endCursor ELSE None

\* cursor = page_info.get('endCursor') if page_info.get('hasNextPage') else None
AdvanceCursor(c, new_page_info) ==
    IF new_page_info.hasNextPage THEN new_page_info.endCursor ELSE None

\* a driver that works on a copy of the tree's list
TreeUntouched(tree, nodes) == tree

\* commit_nodes = commit_history.get('nodes', []) is the tree's own list
\* (repo_handler.py:445), which commit_nodes.extend() changes in place (485)
ExtendInPlace(tree, nodes) == [tree EXCEPT !.object.history.nodes = nodes]

\* repo_handler.py:479-491: a continuation response, one of answers, arrives
RecvPageFrom(answers) ==
    /\ pc = "wait_page"
    /\ \E resp \in answers :
          /\ ~client_query(resp).raised
          /\ responses' = Append(responses, resp)
          /\ LET pagination_repo == client_query(resp).value.data.repository
             IN  IF Truthy(pagination_repo.object)
                    /\ HasKey(pagination_repo.object, "history")
                 THEN /\ commit_nodes' =
                            Extend(commit_nodes, pagination_repo.object.history.nodes)
                      /\ data' = ExtendInPlace(data, commit_nodes')
                      /\ fetched' = Append(fetched, pagination_repo.object.history.nodes)
                      /\ page_info' = pagination_repo.object.history.pageInfo
                      /\ cursor' = AdvanceCursor(cursor, page_info')
                 ELSE /\ cursor' = None
                      /\ UNCHANGED <<commit_nodes, data, fetched, page_info>>
    /\ inflight' = None
    /\ pc' = IF CursorTruthy(cursor') THEN "loop" ELSE "aggregate"
    /\ UNCHANGED <<commandVars, posts, raised, compareVars, requests, stderr,
                   saved, client, sorted_committers, ahead_branches>>

\* the continuation response is one a server may give when as many commits
\* as the driver holds have been handed out
RecvPage(faults) == RecvPageFrom(PageAnswers(Len(commit_nodes), faults))

\* repo_handler.py:492-494: the fetch raised; the warning is printed
\* (followed, in the program, by the exception's text)
RecvPageError(faults) ==
    /\ pc = "wait_page"
    /\ \E resp \in PageAnswers(Len(commit_nodes), faults) :
          /\ client_query(resp).raised
          /\ responses' = Append(responses, resp)
          /\ raised' = Append(raised, [request |-> Len(requests),
                                       exc |-> client_query(resp).exc])
    /\ stderr' = Append(stderr, "[Warning] Error fetching additional commits")
    /\ cursor' = CursorOnError(cursor)
    /\ inflight' = None
    /\ pc' = IF CursorTruthy(cursor') THEN "loop" ELSE "aggregate"
    /\ UNCHANGED <<commandVars, posts, data, compareVars, requests, saved,
                   client, commit_nodes, page_info, fetched, sorted_committers,
                   ahead_branches>>

\* for branch in branch_nodes: ... ahead_branches.append(...)
RECURSIVE AheadFrom(_, _, _)
AheadFrom(nodes, default_branch_name, j) ==
    IF j > Len(nodes) THEN <<>>
    ELSE IF /\ nodes[j].name # default_branch_name
            /\ HasKey(nodes[j], "compare")
            /\ Truthy(nodes[j].compare)
            /\ nodes[j].compare.aheadBy > 0
         THEN <<[name |-> nodes[j].name,
                 count |-> nodes[j].compare.aheadBy,
                 behind |-> nodes[j].compare.behindBy]>>
              \o AheadFrom(nodes, default_branch_name, j + 1)
         ELSE AheadFrom(nodes, default_branch_name, j + 1)

\* repo_handler.py:562-584: the branches ahead, sorted by commits ahead
AheadBranches(tree) ==
    IF tree.refs.nodes # <<>> /\ tree.isFork
    THEN SortedByCount(AheadFrom(tree.refs.nodes, tree.defaultBranchRef.name, 1))
    ELSE <<>>

\* repo_handler.py:496-589: the ranking and the branch information are
\* printed; print_repo_info returns and main ends (gitsome.py:157)
Aggregate ==
    /\ pc = "aggregate"
    /\ sorted_committers' = Ranking(commit_nodes)
    /\ ahead_branches' = AheadBranches(data)
    /\ exit_code' = <<0>>
    /\ pc' = "done"
    /\ UNCHANGED <<args, call, query, printed, clientVars, data, compareVars,
                   requests, inflight, stderr, saved, client, commit_nodes,
                   page_info, cursor, fetched>>

NextHistory ==
    \/ PrimaryQuery(HistoryTrees, NoFaults)
    \/ SkipCompare
    \/ Save
    \/ StartPagination(BOOLEAN)
    \/ SendPage
    \/ RecvPage(FewFaults)
    \/ RecvPageError(FewFaults)
    \/ Aggregate

SpecHistory == Init /\ [][NextHistory]_vars

----------------------------------------------------------------------------
(* The three commands, from the command line to the exit status *)

\* a first page that holds the whole of a history of MaxCommits commits
FullPage == [j \in 1..MaxCommits |-> Commit(IF j % 2 = 1 THEN Al ELSE Bo)]

\* primary results of the repo command: forks and others, with few branches
\* and a history that is absent, complete, or said to continue
CommandTrees ==
    { [isFork |-> f,
       defaultBranchRef |-> [name |-> NameOf(1)],
       refs |-> [nodes |-> RefNodes(n, FALSE)],
       object |-> o] :
      f \in BOOLEAN, n \in 0..MaxFew,
      o \in {None}
            \cup {[history |-> [nodes |-> FullPage,
                                pageInfo |-> [hasNextPage |-> h,
                                              endCursor |-> CursorAt(MaxCommits)]]] :
                    h \in BOOLEAN} }

NextCommand ==
    \/ PrimaryQuery(CommandTrees, AllFaults)
    \/ OwnerQuery(AllFaults)
    \/ PrimaryQueryError(CommandTrees, AllFaults)
    \/ SaveOwner
    \/ PrintOwner
    \/ SendCompare
    \/ SkipCompare
    \/ RecvCompare(FewFaults)
    \/ RecvCompareError(FewFaults)
    \/ Save
    \/ StartPagination({TRUE})
    \/ SendPage
    \/ RecvPage(FewFaults)
    \/ RecvPageError(FewFaults)
    \/ Aggregate

SpecCommand == Start(CommandLines, {None}) /\ [][NextCommand]_vars

----------------------------------------------------------------------------
(* print_repo_info called a second time on the tree it was given before, *)
(* against a repository that does not change                              *)

\* what the server answered to the continuation requests that carried the
\* cursor of the request in flight
Replayed ==
    {responses[r] : r \in {x \in PageRequests :
                              x < Len(requests) /\ requests[x].body = inflight.body}}

\* a repository that does not change gives the answer it gave before
StaticAnswers ==
    IF Replayed # {} THEN Replayed ELSE PageAnswers(Len(commit_nodes), NoFaults)

RecvPageStatic == RecvPageFrom(StaticAnswers)

\* print_repo_info(data, owner, repo_name, client) is called once more with
\* the same data
PrintAgain ==
    /\ pc = "done"
    /\ Len(printed) = 1
    /\ pc' = "print"
    /\ UNCHANGED <<commandVars, clientVars, data, compareVars, requests,
                   inflight, stderr, saved, historyVars>>

NextAgain ==
    \/ PrimaryQuery(HistoryTrees, NoFaults)
    \/ SkipCompare
    \/ Save
    \/ StartPagination({TRUE})
    \/ SendPage
    \/ RecvPageStatic
    \/ Aggregate
    \/ PrintAgain

SpecAgain == Init /\ [][NextAgain]_vars

----------------------------------------------------------------------------
(* The query builders, called on their own *)

\* owner, repository and login names
Names == {<<"o">>, <<"g", "2">>, <<"a", "-", "b">>, <<"x", ".", "y">>}

\* the calls of the three builders, every parameter given
Calls ==
    {[fn |-> "get_org_query", org_name |-> n] : n \in Names}
    \cup {[fn |-> "get_user_query", username |-> n] : n \in Names}
    \cup {[fn |-> "get_repo_query", owner |-> o, repo_name |-> r,
           default_branch |-> d, include_stargazers |-> f] :
            o \in Names, r \in Names,
            d \in {None, JStr(<<"m", "a", "i", "n">>)}, f \in BOOLEAN}

\* the builder is called and returns the query text
BuildQuery ==
    /\ pc = "start"
    /\ ~IsNone(call)
    /\ query' = CASE call.fn = "get_org_query"  -> get_org_query(call.org_name)
                  [] call.fn = "get_user_query" -> get_user_query(call.username)
                  [] call.fn = "get_repo_query" ->
                        get_repo_query(call.owner, call.repo_name,
                                       call.default_branch, call.include_stargazers)
    /\ pc' = "built"
    /\ UNCHANGED <<args, call, exit_code, printed, clientVars, data, compareVars,
                   requests, inflight, stderr, saved, historyVars>>

NextQuery == BuildQuery

SpecQuery == Start({DefaultRepoArgs}, Calls) /\ [][NextQuery]_vars

----------------------------------------------------------------------------
(* Properties of the comparison round trip *)

\* the comparison query has been built and sent
QueryBuilt == \E r \in 1..Len(requests) : requests[r].kind = "compare"

\* the comparison response has been merged into the tree
Merged ==
    /\ pc = "save"
    /\ QueryBuilt
    /\ \A d \in 1..Len(stderr) : stderr[d] # "[DEBUG] Error fetching branch comparisons"

\* the first node of the tree's branch list with this name
NodeNamed(name) ==
    data.refs.nodes[CHOOSE j \in 1..Len(data.refs.nodes) :
                        /\ data.refs.nodes[j].name = name
                        /\ \A y \in 1..(j - 1) : data.refs.nodes[y].name # name]

\* C1: the query holds exactly min(len(L), 50) aliased sub-selections, the
\* j-th one naming the j-th branch of L, and no two of them share an alias
C1_AliasCountAndBijection ==
    QueryBuilt =>
        /\ Len(comparison_query) = Min(Len(branch_names), 50)
        /\ \A j \in 1..Len(comparison_query) :
              comparison_query[j].ref = RefsHeads \o branch_names[j]
        /\ \A j, k \in 1..Len(comparison_query) :
              comparison_query[j].alias = comparison_query[k].alias => j = k

\* C1 witness: a candidate list longer than the cap was given to the builder
C1_Witness ==
    /\ QueryBuilt
    /\ Len(branch_names) > 50
    /\ Len(comparison_query) = 50

\* C2: the alias at index i is "ref_" followed by the decimal digits of i,
\* holds neither '-' nor '.', and does not depend on the branch names: the
\* tokens derived again for the same positions (as the merge does,
\* gitsome.py:138) are the same
C2_AliasTokens ==
    QueryBuilt =>
        \A j \in 1..Len(comparison_query) :
            LET alias == comparison_query[j].alias
                digits == SubSeq(alias, 5, Len(alias))
            IN  /\ SubSeq(alias, 1, 4) = <<"r", "e", "f", "_">>
                /\ digits # <<>>
                /\ \A c \in 1..Len(digits) : digits[c] \in DOMAIN DigitVal
                /\ (Len(digits) > 1 => digits[1] # "0")
                /\ ParseNat(digits, 0) = j - 1
                /\ \A c \in 1..Len(alias) : alias[c] \notin {"-", "."}
                /\ alias = MergeAlias(j - 1)

\* C2 witness: a query over branch names holding '-' and '.', with an alias
\* of two digits
C2_Witness ==
    /\ QueryBuilt
    /\ \E j \in 1..Len(branch_names) :
          \E c \in 1..Len(branch_names[j]) : branch_names[j][c] = "-"
    /\ \E j \in 1..Len(branch_names) :
          \E c \in 1..Len(branch_names[j]) : branch_names[j][c] = "."
    /\ \E j \in 1..Len(comparison_query) : Len(comparison_query[j].alias) = 6

\* C3: after the merge, for each sub-selection (alias, branch) of the query
\* whose alias came back with a non-null object holding a compare entry, the
\* node named after that branch carries exactly that entry; and main derives
\* at every index the alias the builder emitted
C3_CompareAttachedToItsBranch ==
    Merged =>
        \A j \in 1..Len(comparison_query) :
            LET alias == comparison_query[j].alias
            IN  /\ comparison_query[j].ref = RefsHeads \o branch_names[j]
                /\ alias = MergeAlias(j - 1)
                /\ (/\ alias \in DOMAIN comparison_data
                    /\ Truthy(comparison_data[alias])
                    /\ HasKey(comparison_data[alias], "compare"))
                   => /\ HasKey(NodeNamed(branch_names[j]), "compare")
                      /\ NodeNamed(branch_names[j]).compare =
                             comparison_data[alias].compare

\* C3 witness: the default branch heads the branch list, so that candidate
\* and node indices differ, and a branch holds what the server has for it
C3_Witness ==
    /\ Merged
    /\ Len(data.refs.nodes) > 50
    /\ data.refs.nodes[1].name = data.defaultBranchRef.name
    /\ \E j \in 2..Len(data.refs.nodes) :
          /\ HasKey(data.refs.nodes[j], "compare")
          /\ data.refs.nodes[j].compare = CompareOf(data.refs.nodes[j].target.oid)

\* C4: merging the same comparison response a second time changes nothing
C4_MergeIdempotent ==
    Merged => Merge(data.refs.nodes, branch_names, comparison_data) = data.refs.nodes

\* C4 witness: a merge that attached a comparison with counts above zero
C4_Witness ==
    /\ Merged
    /\ \E j \in 1..Len(data.refs.nodes) :
          /\ HasKey(data.refs.nodes[j], "compare")
          /\ ~IsNone(data.refs.nodes[j].compare)
          /\ data.refs.nodes[j].compare.aheadBy > 0

\* C5: after the merge no node outside the first 50 candidates has a compare
\* key, whatever the response holds
C5_BeyondCapNoCompare ==
    Merged =>
        \A j \in 1..Len(data.refs.nodes) :
            (\A k \in 1..Min(Len(branch_names), 50) :
                branch_names[k] # data.refs.nodes[j].name)
            => ~HasKey(data.refs.nodes[j], "compare")

\* C5 witness: candidates beyond the cap, a response that holds entries under
\* the aliases they would have had, and comparisons attached below the cap
C5_Witness ==
    /\ Merged
    /\ Len(branch_names) > 50
    /\ RefPrefix \o NatStr(50) \in DOMAIN comparison_data
    /\ \E j \in 1..Len(data.refs.nodes) : HasKey(data.refs.nodes[j], "compare")
    /\ \E j \in 1..Len(data.refs.nodes) :
          /\ data.refs.nodes[j].name = branch_names[51]
          /\ ~HasKey(data.refs.nodes[j], "compare")

----------------------------------------------------------------------------
(* Properties of the pagination driver and of the committer aggregation *)

RECURSIVE Flatten(_)
Flatten(pages) == IF pages = <<>> THEN <<>> ELSE Head(pages) \o Flatten(Tail(pages))

Warned ==
    \E d \in 1..Len(stderr) : stderr[d] = "[Warning] Error fetching additional commits"

\* the pagination driver has returned
DriverDone == pc \in {"aggregate", "done"}

\* the position of the first commit of the accumulated sequence with key k
FirstWith(k) ==
    CHOOSE i \in 1..Len(commit_nodes) :
        /\ KeyOf(commit_nodes[i]) = k
        /\ \A y \in 1..(i - 1) : KeyOf(commit_nodes[y]) # k

\* C6: with a client and no failed fetch, once the page with hasNextPage
\* false has been read, the continuation requests number one less than the
\* pages and the accumulated sequence is the pages concatenated in fetch order
C6_PagesConcatenated ==
    (/\ DriverDone
     /\ client
     /\ ~Warned
     /\ ~IsNone(page_info)
     /\ ~page_info.hasNextPage)
    => /\ Cardinality(PageRequests) = Len(fetched) - 1
       /\ commit_nodes = Flatten(fetched)
       /\ (pc = "done" => sorted_committers = Ranking(Flatten(fetched)))

\* C6 witness: three pages were read, one of them holding two different
\* records
C6_Witness ==
    /\ pc = "done"
    /\ client
    /\ ~Warned
    /\ ~IsNone(page_info)
    /\ ~page_info.hasNextPage
    /\ Len(fetched) = 3
    /\ Cardinality(PageRequests) = 2
    /\ \E k \in 1..Len(fetched) :
          Len(fetched[k]) = 2 /\ fetched[k][1] # fetched[k][2]
    /\ Len(fetched[3]) > 0

\* C7: once a page fetch has raised, there is one warning, the driver has
\* returned (nothing is in flight and it sends nothing more), the sequence it
\* holds is the pages read before concatenated, and the ranking printed at
\* the end of the command is that of exactly this sequence
C7_PartialOnFailure ==
    Warned =>
        /\ DriverDone
        /\ IsNone(inflight)
        /\ Len(stderr) = 1
        /\ Cardinality(PageRequests) = Len(fetched)
        /\ commit_nodes = Flatten(fetched)
        /\ (pc = "done" => sorted_committers = Ranking(Flatten(fetched)))

\* C7 witness: the fetch of the third page raised and the command finished
\* with the ranking of the first two pages
C7_Witness ==
    /\ pc = "done"
    /\ Warned
    /\ Len(fetched) = 2
    /\ Len(fetched[1]) > 0
    /\ Len(fetched[2]) > 0
    /\ sorted_committers # <<>>

\* C8: the ranking is sorted by count non-increasing, keys of equal count
\* stand in the order of their first commits, and the history
\* a,a,a,b,b,b,b,b,c,c,c,c,c is ranked (b,5), (c <c@x>,5), (a,3)
C8_StableRanking ==
    pc = "done" =>
        /\ \A i, j \in 1..Len(sorted_committers) :
              i < j =>
                /\ sorted_committers[i].count >= sorted_committers[j].count
                /\ (sorted_committers[i].count = sorted_committers[j].count
                    => FirstWith(sorted_committers[i].key)
                          < FirstWith(sorted_committers[j].key))
        /\ (commit_nodes = SamplePage =>
              [i \in 1..Len(sorted_committers) |->
                  <<sorted_committers[i].key, sorted_committers[i].count>>]
              = << <<(<<"b">>), 5>>,
                   <<(<<"c", " ", "<", "c", "@", "x", ">">>), 5>>,
                   <<(<<"a">>), 3>> >>)

\* C8 witness: the sample history has been ranked
C8_Witness ==
    /\ pc = "done"
    /\ commit_nodes = SamplePage
    /\ Len(sorted_committers) = 3

\* C9: every commit is counted under the entry whose key is its login when
\* it has one and "name <email>" otherwise, and no two entries share a key
C9_IdentityKey ==
    pc = "done" =>
        /\ \A i \in 1..Len(commit_nodes) :
              LET a == commit_nodes[i].author
                  key == IF ~IsNone(a.user) THEN a.user.login
                         ELSE a.name \o <<" ", "<">> \o a.email \o <<">">>
              IN  \E e \in 1..Len(sorted_committers) : sorted_committers[e].key = key
        /\ \A e, f \in 1..Len(sorted_committers) :
              sorted_committers[e].key = sorted_committers[f].key => e = f

\* C9 witness: two commits of one login with different names and emails,
\* counted under one entry
C9_Witness ==
    /\ pc = "done"
    /\ \E i, j \in 1..Len(commit_nodes) :
          /\ commit_nodes[i].author = Al
          /\ commit_nodes[j].author = Ali
    /\ \E e \in 1..Len(sorted_committers) :
          sorted_committers[e].key = <<"a">> /\ sorted_committers[e].count >= 2

\* C10: the count of an entry is the number of commits with its key, and its
\* email and login are those of the first such commit
C10_CountAndFirstSeen ==
    pc = "done" =>
        \A e \in 1..Len(sorted_committers) :
            LET k == sorted_committers[e].key
                with == {i \in 1..Len(commit_nodes) : KeyOf(commit_nodes[i]) = k}
            IN  /\ with # {}
                /\ sorted_committers[e].count = Cardinality(with)
                /\ sorted_committers[e].email =
                       commit_nodes[FirstWith(k)].author.email
                /\ sorted_committers[e].login =
                       UserLogin(commit_nodes[FirstWith(k)].author)

\* C10 witness: a later commit of the same key carries another email
C10_Witness ==
    /\ pc = "done"
    /\ \E i, j \in 1..Len(commit_nodes) :
          /\ i < j
          /\ commit_nodes[i].author = Al
          /\ commit_nodes[j].author = Ali
          /\ \A y \in 1..(i - 1) : KeyOf(commit_nodes[y]) # <<"a">>
    /\ \E e \in 1..Len(sorted_committers) :
          /\ sorted_committers[e].key = <<"a">>
          /\ sorted_committers[e].email = <<"a", "@", "x">>

----------------------------------------------------------------------------
(* Properties of the query builders *)

\* the query lexemes that name a stargazer field
StargazerFields == {"stargazerCount", "stargazers"}

HasStargazerField(text) == \E j \in 1..Len(text) : text[j] \in StargazerFields

\* the text without the n lexemes after position p
Without(text, p, n) == SubSeq(text, 1, p) \o SubSeq(text, p + n + 1, Len(text))

\* C11: the text get_repo_query returns holds no stargazerCount and no
\* stargazers selection when include_stargazers is false; when it is true the
\* text holds one run of lexemes, starting with stargazerCount and holding a
\* stargazers selection, and without that run it is the text of the same call
\* with the flag false
C11_StargazersOnlyOnRequest ==
    (pc = "built" /\ call.fn = "get_repo_query") =>
        IF call.include_stargazers
        THEN \E p \in 1..Len(query), n \in 1..Len(StargazersText) :
                /\ p + n <= Len(query)
                /\ query[p + 1] = "stargazerCount"
                /\ \E j \in (p + 2)..(p + n) :
                      query[j] = "stargazers" /\ query[j + 1] = "("
                /\ ~HasStargazerField(Without(query, p, n))
                /\ Without(query, p, n) =
                      get_repo_query(call.owner, call.repo_name,
                                     call.default_branch, FALSE)
        ELSE ~HasStargazerField(query)

\* C11 witness: one repository queried with the flag set, the text holding
\* the stargazer fields
C11_Witness ==
    /\ pc = "built"
    /\ call.fn = "get_repo_query"
    /\ call.include_stargazers
    /\ HasStargazerField(query)
    /\ Len(query) > Len(get_repo_query(call.owner, call.repo_name,
                                       call.default_branch, FALSE))

\* the braces a lexeme opens (closes, when negative)
BraceWeight(lexeme) ==
    CASE lexeme = "{"  -> 1
      [] lexeme = "{{" -> 2
      [] lexeme = "}"  -> -1
      [] lexeme = "}}" -> -2
      [] OTHER -> 0

\* of the lexemes lo..hi: the braces left open at the end (net) and the
\* least number open after any of them (low), counted from zero
RECURSIVE BraceCount(_, _, _)
BraceCount(text, lo, hi) ==
    IF lo > hi THEN [net |-> 0, low |-> 0]
    ELSE IF lo = hi
         THEN [net |-> BraceWeight(text[lo]), low |-> Min(0, BraceWeight(text[lo]))]
         ELSE LET mid == (lo + hi) \div 2
                  a == BraceCount(text, lo, mid)
                  b == BraceCount(text, mid + 1, hi)
              IN  [net |-> a.net + b.net, low |-> Min(a.low, a.net + b.low)]

\* no prefix closes more braces than it opens, and none is left open
BracesBalanced(text) ==
    BraceCount(text, 1, Len(text)) = [net |-> 0, low |-> 0]

\* C12: the text every builder returns has balanced braces and holds no
\* doubled brace
C12_ValidDocument ==
    pc = "built" =>
        /\ BracesBalanced(query)
        /\ \A j \in 1..Len(query) : query[j] \notin {"{{", "}}"}

----------------------------------------------------------------------------
(* Properties of the command: the comparison step, the client, failures *)

\* the requests of one kind handed to client.query
RequestsOf(kind) == {r \in 1..Len(requests) : requests[r].kind = kind}

\* the primary result holds no branch other than the default branch
NoCandidate ==
    \A j \in 1..Len(data.refs.nodes) :
        data.refs.nodes[j].name = data.defaultBranchRef.name

\* C13: when the primary result holds no branch other than the default one,
\* no comparison query is built, no comparison request is sent, and no branch
\* node has a compare key
C13_NoCandidateNoComparison ==
    (pc \notin {"start", "exit"} /\ NoCandidate) =>
        /\ comparison_query = <<>>
        /\ RequestsOf("compare") = {}
        /\ Len(posts) = 1
        /\ IsNone(inflight)
        /\ \A j \in 1..Len(data.refs.nodes) : ~HasKey(data.refs.nodes[j], "compare")

\* C13 witness: a fork whose only branch is its default branch went past the
\* comparison step
C13_Witness ==
    /\ pc = "save"
    /\ data.isFork
    /\ Len(data.refs.nodes) = 1
    /\ NoCandidate
    /\ branch_names = <<>>
    /\ RequestsOf("compare") = {}

\* the exceptions client.query raised for request i
RaisedFor(i) == {k \in 1..Len(raised) : raised[k].request = i}

\* texts occur in text one after another, in their order, from position
\* from on
RECURSIVE InOrder(_, _, _)
InOrder(texts, text, from) ==
    IF texts = <<>> THEN TRUE
    ELSE \E p \in from..(Len(text) - Len(texts[1]) + 1) :
            /\ SubSeq(text, p, p + Len(texts[1]) - 1) = texts[1]
            /\ InOrder(Tail(texts), text, p + Len(texts[1]))

\* the messages the server reported in an errors array, in its order
ServerMessages(errors) ==
    LET with == SelectSeq(errors, LAMBDA e : HasKey(e, "message"))
    IN  [j \in 1..Len(with) |-> with[j].message]

C15_OnePostPerCall ==
    /\ Len(posts) = Len(requests)
    /\ \A i \in 1..Len(requests) : posts[i] = [query |-> requests[i].body]
    /\ Len(responses) \in {Len(requests) - 1, Len(requests)}
    /\ \A k \in 1..Len(raised) :
          \A r \in (raised[k].request + 1)..Len(requests) :
              requests[r].kind # requests[raised[k].request].kind

\* C15 witness: the comparison request and a continuation request both
\* failed, and the command ended with three posts
C15_Witness ==
    /\ pc = "done"
    /\ Len(raised) = 2
    /\ Len(posts) = 3
    /\ requests[2].kind = "compare"
    /\ requests[3].kind = "page"

\* C16: once the primary query has raised, the command is over with exit
\* status 1: the primary request is the only request, nothing is saved and
\* no print_*_info function was entered
C16_PrimaryFailureAborts ==
    RaisedFor(1) # {} =>
        /\ pc = "exit"
        /\ exit_code = <<1>>
        /\ Len(requests) = 1
        /\ Len(posts) = 1
        /\ IsNone(inflight)
        /\ saved = <<>>
        /\ printed = <<>>
        /\ IsNone(data)

\* C16 witness: the primary query of user raised on errors under status 200
C16_Witness ==
    /\ args.command = "user"
    /\ ~args.no_save
    /\ RaisedFor(1) # {}
    /\ raised[1].exc.type = "Exception"
    /\ pc = "exit"

\* the comparison request raised
CompareFailed ==
    \E k \in 1..Len(raised) : requests[raised[k].request].kind = "compare"

\* C17: once the comparison query has raised, the diagnostic is on stderr, no
\* branch node has a compare key, and the command has not left: it goes on
\* below the comparison step, and when it is done the files are written
\* (unless --no-save), print_repo_info has run, a history said to continue
\* was paginated, and the exit status is 0
C17_CompareFailureDegrades ==
    CompareFailed =>
        /\ \E d \in 1..Len(stderr) :
              stderr[d] = "[DEBUG] Error fetching branch comparisons"
        /\ \A j \in 1..Len(data.refs.nodes) : ~HasKey(data.refs.nodes[j], "compare")
        /\ Cardinality(RequestsOf("compare")) = 1
        /\ pc \in {"save", "print", "loop", "wait_page", "aggregate", "done"}
        /\ exit_code # <<1>>
        /\ (pc \in {"save", "print"} => exit_code = <<>>)
        /\ pc = "done" =>
              /\ exit_code = <<0>>
              /\ printed = <<"repo">>
              /\ (~args.no_save => Len(saved) = 2)
              /\ (Truthy(data.object) /\ data.object.history.pageInfo.hasNextPage)
                    => RequestsOf("page") # {}

\* C17 witness: after the failed comparison the files were written, a
\* continuation page was read and the command ended
C17_Witness ==
    /\ pc = "done"
    /\ CompareFailed
    /\ Len(saved) = 2
    /\ RequestsOf("page") # {}
    /\ Len(raised) = 1
    /\ exit_code = <<0>>

----------------------------------------------------------------------------
(* Properties of the pagination driver: when and how it sends *)

\* the primary result holds a commit history
HasHistory == Truthy(data.object) /\ HasKey(data.object, "history")

\* C18: when print_repo_info is given no client, or the first page says
\* hasNextPage false, the driver sends no continuation request and the
\* sequence it aggregates is the first page; the Markdown report, which is
\* made without a client, ranks the first page
C18_PaginationOptIn ==
    /\ (DriverDone /\ HasHistory
        /\ (~client \/ ~data.object.history.pageInfo.hasNextPage)) =>
          /\ RequestsOf("page") = {}
          /\ Len(requests) = 1
          /\ Len(fetched) = 1
          /\ commit_nodes = fetched[1]
          /\ (pc = "done" => sorted_committers = Ranking(fetched[1]))
    /\ (pc = "print" /\ HasHistory) =>
          /\ Len(saved) = 2
          /\ saved[2].content = Take(Ranking(fetched[1]), 10)
          /\ Len(requests) = 1

\* C18 witness: no client was given, the first page says that more follow,
\* and the command ended with the first page alone
C18_Witness ==
    /\ pc = "done"
    /\ ~client
    /\ HasHistory
    /\ data.object.history.pageInfo.hasNextPage
    /\ CursorTruthy(data.object.history.pageInfo.endCursor)
    /\ commit_nodes # <<>>
    /\ commit_nodes = fetched[1]
    /\ RequestsOf("page") = {}

\* the endCursor that came with response i (the primary result when i = 1)
EndCursorOf(i) ==
    responses[i].body.data.repository.object.history.pageInfo.endCursor

\* C19: a call of client.query waits for a response exactly while the driver
\* waits, so at most one request is outstanding, and every continuation
\* request was sent after the response to the request before it and carries
\* the endCursor of that response
C19_OneAtATimeLatestCursor ==
    /\ ~IsNone(inflight) <=> pc \in {"wait_compare", "wait_page"}
    /\ Len(requests) - Len(responses) = (IF IsNone(inflight) THEN 0 ELSE 1)
    /\ ~IsNone(inflight) => inflight = requests[Len(requests)]
    /\ \A r \in RequestsOf("page") :
          /\ r > 1
          /\ RaisedFor(r - 1) = {}
          /\ ~IsNone(EndCursorOf(r - 1))
          /\ requests[r].body = EndCursorOf(r - 1).str

\* C19 witness: two continuation requests were sent, with different cursors
C19_Witness ==
    /\ Len(requests) = 3
    /\ requests[2].kind = "page"
    /\ requests[3].kind = "page"
    /\ requests[2].body # requests[3].body
    /\ Len(responses) = 3

\* C20: at most one comparison request is sent, and its query names every
\* one of the first 50 candidates
C20_OneComparisonRoundTrip ==
    /\ Cardinality(RequestsOf("compare")) <= 1
    /\ \A r \in RequestsOf("compare") :
          \A j \in 1..Min(Len(branch_names), 50) :
              \E k \in 1..Len(requests[r].body) :
                  requests[r].body[k].ref = RefsHeads \o branch_names[j]

\* C20 witness: a fork with more than one candidate went through the
\* comparison round trip with one request
C20_Witness ==
    /\ pc = "save"
    /\ Len(branch_names) >= 49
    /\ Cardinality(RequestsOf("compare")) = 1
    /\ Len(responses) = 2

----------------------------------------------------------------------------
(* Properties of the renderings (gitsome.py:151-157) *)

\* the command ran to its end with a history of more than one page, and saved
MultiPageSaved ==
    /\ pc = "done"
    /\ args.command = "repo"
    /\ client
    /\ Len(fetched) > 1
    /\ Len(saved) = 2

\* C21: when the history has more than one page, the Markdown ranking is the
\* first ten entries of the console ranking, and the JSON snapshot holds the
\* tree with the accumulated history the console ranking was computed from
C21_RenderedFromFullHistory ==
    MultiPageSaved =>
        /\ saved[2].content = Take(sorted_committers, 10)
        /\ saved[1].content = data
        /\ TreeCommits(saved[1].content) = commit_nodes

----------------------------------------------------------------------------
(* Properties of the merged tree *)

ZeroCompare == [aheadBy |-> 0, behindBy |-> 0]

\* candidate j got no answer: it lies beyond the cap, or its alias is missing
\* from the response or is null there
Unanswered(j) ==
    \/ j > BranchCap
    \/ MergeAlias(j - 1) \notin DOMAIN comparison_data
    \/ IsNone(comparison_data[MergeAlias(j - 1)])

\* candidate j got a comparison of zero commits ahead and zero behind
AnsweredZero(j) ==
    /\ ~Unanswered(j)
    /\ HasKey(comparison_data[MergeAlias(j - 1)], "compare")
    /\ comparison_data[MergeAlias(j - 1)].compare = ZeroCompare

\* C22: after the merge a candidate branch without an answer has no compare
\* key, and a branch whose comparison came back as 0 ahead and 0 behind has a
\* compare key holding these zeros
C22_MissingIsNotZero ==
    Merged =>
        \A j \in 1..Len(branch_names) :
            /\ Unanswered(j) => ~HasKey(NodeNamed(branch_names[j]), "compare")
            /\ AnsweredZero(j) =>
                  /\ HasKey(NodeNamed(branch_names[j]), "compare")
                  /\ NodeNamed(branch_names[j]).compare = ZeroCompare

\* C22 witness: one merged tree holds a branch answered with zeros, a branch
\* whose alias came back null, and a branch dropped by the cap
C22_Witness ==
    /\ Merged
    /\ Len(branch_names) > BranchCap
    /\ \E j \in 1..BranchCap :
          /\ AnsweredZero(j)
          /\ NodeNamed(branch_names[j]).compare = ZeroCompare
    /\ \E j \in 1..BranchCap :
          /\ MergeAlias(j - 1) \in DOMAIN comparison_data
          /\ IsNone(comparison_data[MergeAlias(j - 1)])
          /\ ~HasKey(NodeNamed(branch_names[j]), "compare")
    /\ ~HasKey(NodeNamed(branch_names[BranchCap + 1]), "compare")


\* the primary tree as the primary response carried it
PrimaryTree == responses[1].body.data.repository

\* C23: after the merge the tree differs from the primary response at most in
\* the compare entries of the nodes of refs.nodes: the nodes are as many, in
\* the same order, with every field they had; every other part of the tree
\* is as it was; and the branch-name list and the comparison response are
\* the ones computed and received
C23_MergeFrame ==
    Merged =>
        /\ DOMAIN data = DOMAIN PrimaryTree
        /\ \A k \in DOMAIN data \ {"refs"} : data[k] = PrimaryTree[k]
        /\ DOMAIN data.refs = DOMAIN PrimaryTree.refs
        /\ \A k \in DOMAIN data.refs \ {"nodes"} : data.refs[k] = PrimaryTree.refs[k]
        /\ Len(data.refs.nodes) = Len(PrimaryTree.refs.nodes)
        /\ \A j \in 1..Len(data.refs.nodes) :
              /\ DOMAIN data.refs.nodes[j] \ {"compare"} = DOMAIN PrimaryTree.refs.nodes[j]
              /\ \A k \in DOMAIN PrimaryTree.refs.nodes[j] :
                    data.refs.nodes[j][k] = PrimaryTree.refs.nodes[j][k]
        /\ branch_names = Candidates(PrimaryTree.refs.nodes,
                                     PrimaryTree.defaultBranchRef.name)
        /\ comparison_data = responses[2].body.data.repository

\* C23 witness: a merge that attached comparisons to some nodes of a tree
\* whose default branch is among them
C23_Witness ==
    /\ Merged
    /\ data # PrimaryTree
    /\ \E j \in 1..Len(data.refs.nodes) :
          /\ HasKey(data.refs.nodes[j], "compare")
          /\ HasKey(data.refs.nodes[j], "target")
    /\ \E j \in 1..Len(data.refs.nodes) :
          data.refs.nodes[j].name = data.defaultBranchRef.name


\* the positions of the primary result's branch list that hold another
\* branch than the default one
OtherBranches ==
    {p \in 1..Len(PrimaryTree.refs.nodes) :
        PrimaryTree.refs.nodes[p].name # PrimaryTree.defaultBranchRef.name}

\* C24: the candidate list handed to the builder is the branch names of the
\* primary result in their order, the default branch left out; no
\* sub-selection of the query names the default branch, each one is compared
\* with it, and the node of the default branch never has a compare key
C24_BaseBranchExcluded ==
    /\ QueryBuilt =>
          /\ Len(branch_names) = Cardinality(OtherBranches)
          /\ \A p \in OtherBranches :
                branch_names[Cardinality({q \in OtherBranches : q <= p})]
                    = PrimaryTree.refs.nodes[p].name
          /\ \A j \in 1..Len(comparison_query) :
                /\ comparison_query[j].ref # RefsHeads \o data.defaultBranchRef.name
                /\ comparison_query[j].headRef = RefsHeads \o data.defaultBranchRef.name
    /\ ~IsNone(data) =>
          \A j \in 1..Len(data.refs.nodes) :
              data.refs.nodes[j].name = data.defaultBranchRef.name
              => ~HasKey(data.refs.nodes[j], "compare")

\* C24 witness: the default branch stands between two other branches of the
\* primary result, and both of them got their comparison
C24_Witness ==
    /\ Merged
    /\ \E p \in 2..(Len(data.refs.nodes) - 1) :
          /\ data.refs.nodes[p].name = data.defaultBranchRef.name
          /\ HasKey(data.refs.nodes[p - 1], "compare")
          /\ HasKey(data.refs.nodes[p + 1], "compare")
          /\ ~HasKey(data.refs.nodes[p], "compare")


\* C25: for a primary result that is not a fork, or has no branch nodes, no
\* comparison query is built or sent and no branch node gets a compare key,
\* however many branches there are
C25_ForksOnly ==
    (~IsNone(data) /\ (~PrimaryTree.isFork \/ PrimaryTree.refs.nodes = <<>>))
    => /\ RequestsOf("compare") = {}
       /\ comparison_query = <<>>
       /\ Len(posts) = 1
       /\ pc # "wait_compare"
       /\ \A j \in 1..Len(data.refs.nodes) : ~HasKey(data.refs.nodes[j], "compare")

\* C25 witness: main went past the comparison step with a repository that is
\* not a fork and has more branches than the cap
C25_Witness ==
    /\ pc = "save"
    /\ ~data.isFork
    /\ Len(data.refs.nodes) > BranchCap
    /\ \E j \in 1..Len(data.refs.nodes) :
          data.refs.nodes[j].name # data.defaultBranchRef.name

----------------------------------------------------------------------------
(* Properties of the committer entries *)

\* the identity of a commit's author: the login when there is a non-empty
\* one, the pair of name and email otherwise
IdentityOf(commit) ==
    IF ~IsNone(commit.author.user) /\ commit.author.user.login # <<>>
    THEN [login |-> commit.author.user.login]
    ELSE [name |-> commit.author.name, email |-> commit.author.email]

\* the commits of the accumulated sequence with this identity
CommitsOf(id) == {i \in 1..Len(commit_nodes) : IdentityOf(commit_nodes[i]) = id}

\* C26: the ranking has one entry for each identity among the commits, an
\* identity being a login or, without a login, a pair of name and email, and
\* the entry counts the commits of that identity; an entry of a login counts
\* no commit without a login
C26_EntriesAreIdentities ==
    pc = "done" =>
        LET ids == {IdentityOf(commit_nodes[i]) : i \in 1..Len(commit_nodes)}
        IN  /\ Len(sorted_committers) = Cardinality(ids)
            /\ \A id \in ids :
                  \E e \in 1..Len(sorted_committers) :
                      /\ sorted_committers[e].count = Cardinality(CommitsOf(id))
                      /\ IsNone(sorted_committers[e].login) = ~HasKey(id, "login")


\* the counts of the entries e..Len(ranking) added up
RECURSIVE SumCounts(_, _)
SumCounts(ranking, e) ==
    IF e > Len(ranking) THEN 0
    ELSE ranking[e].count + SumCounts(ranking, e + 1)

\* C27: whatever sequence the driver hands over, complete or cut short by a
\* failure, the ranking has exactly one entry for each key among its commits,
\* every count is at least 1, and the counts add up to the length of the
\* sequence
C27_NothingDropped ==
    pc = "done" =>
        /\ {sorted_committers[e].key : e \in 1..Len(sorted_committers)}
              = {KeyOf(commit_nodes[i]) : i \in 1..Len(commit_nodes)}
        /\ \A e, f \in 1..Len(sorted_committers) :
              sorted_committers[e].key = sorted_committers[f].key => e = f
        /\ \A e \in 1..Len(sorted_committers) : sorted_committers[e].count >= 1
        /\ SumCounts(sorted_committers, 1) = Len(commit_nodes)

\* C27 witness: a sequence cut short by a failed fetch, with more committers
\* than the ten the Markdown report ranks, all of them in the ranking
C27_Witness ==
    /\ pc = "done"
    /\ Warned
    /\ Len(sorted_committers) > 10
    /\ Len(saved) = 2
    /\ Len(saved[2].content) = 10
    /\ \E e \in 1..Len(sorted_committers) : sorted_committers[e].count > 1

----------------------------------------------------------------------------
(* Properties of the pagination loop's end *)

\* the response asks for a continuation: it is no failure, it holds a
\* history, and its pageInfo has hasNextPage true and a non-empty endCursor
Continuing(resp) ==
    /\ ~raise_for_status(resp.status)
    /\ ~HasKey(resp.body, "errors")
    /\ Truthy(resp.body.data.repository.object)
    /\ HasKey(resp.body.data.repository.object, "history")
    /\ resp.body.data.repository.object.history.pageInfo.hasNextPage
    /\ StrTruthy(resp.body.data.repository.object.history.pageInfo.endCursor)

LastResponse == responses[Len(responses)]

\* print_repo_info has been entered and waits for no response
InDriver == pc \in {"loop", "aggregate", "done"}

\* C28: with a client, the loop goes on exactly as long as the last response
\* asks for a continuation: a page with hasNextPage false, a page with a null
\* or empty endCursor, a response without object or history, or a failure
\* ends it, and nothing else does, neither the number of requests made nor a
\* cursor handed out before (the model follows MaxRequests requests)
C28_StopsOnlyOnServerWord ==
    (InDriver /\ client) =>
        /\ (pc = "loop") = Continuing(LastResponse)
        /\ pc = "loop" => /\ CursorTruthy(cursor)
                          /\ cursor = LastResponse.body.data.repository.object.history.pageInfo.endCursor

\* C28 witness: every continuation request carried the same cursor, the
\* server having answered each with hasNextPage true and that cursor, and the
\* loop condition still holds
C28_Witness ==
    /\ pc = "loop"
    /\ Cardinality(PageRequests) = MaxRequests
    /\ \A r \in PageRequests : requests[r].body = cursor.str
    /\ Continuing(LastResponse)


\* the last response is a page that says hasNextPage with a null or empty
\* endCursor, or a continuation response without object or history
SilentEnd ==
    /\ ~raise_for_status(LastResponse.status)
    /\ ~HasKey(LastResponse.body, "errors")
    /\ LET repo == LastResponse.body.data.repository
       IN  IF Truthy(repo.object) /\ HasKey(repo.object, "history")
           THEN /\ repo.object.history.pageInfo.hasNextPage
                /\ ~StrTruthy(repo.object.history.pageInfo.endCursor)
           ELSE Len(responses) > 1

\* C29: when a page says hasNextPage with a null or empty endCursor, or a
\* continuation response has no object or no history, the driver returns
\* without a warning and without an exception, sends nothing more, and the
\* pages read so far, that page included, are ranked as the whole history
C29_SilentEarlyStop ==
    (InDriver /\ client /\ SilentEnd) =>
        /\ pc # "loop"
        /\ IsNone(inflight)
        /\ stderr = <<>>
        /\ raised = <<>>
        /\ Len(requests) = Len(responses)
        /\ commit_nodes = Flatten(fetched)
        /\ (pc = "done" => /\ sorted_committers = Ranking(Flatten(fetched))
                           /\ exit_code = <<0>>)

\* C29 witness: the second page came with hasNextPage true and no cursor, and
\* the command ended with the ranking of the two pages
C29_Witness ==
    /\ pc = "done"
    /\ client
    /\ SilentEnd
    /\ Len(fetched) = 2
    /\ Len(fetched[2]) > 0
    /\ page_info.hasNextPage
    /\ IsNone(page_info.endCursor)
    /\ Len(sorted_committers) > 1

----------------------------------------------------------------------------
(* Properties of the tree after pagination *)

\* the pages the first call read, when the second call has read as many
\* pages again as the first call fetched
FirstCallPages == (Len(fetched) + 1) \div 2

\* C30: the driver's sequence is the history.nodes list of the tree, which
\* so grows with every page, while the tree's pageInfo stays that of the first
\* page; a second call on the same tree starts from the accumulated list and
\* the first cursor, fetches the later pages again and appends them again
\* (every continuation response holding a history), and its ranking counts
\* their commits twice
C30_TreeGrowsPageInfoStays ==
    /\ (~IsNone(data) /\ HasHistory) =>
          data.object.history.pageInfo = PrimaryTree.object.history.pageInfo
    /\ (InDriver /\ HasHistory) =>
          /\ data.object.history.nodes = commit_nodes
          /\ commit_nodes = Flatten(fetched)
    /\ (/\ pc = "done"
        /\ Len(printed) = 2
        /\ HasHistory
        /\ Len(fetched) = Cardinality(PageRequests) + 1) =>
          /\ Len(fetched) = 2 * FirstCallPages - 1
          /\ Cardinality(PageRequests) = 2 * (FirstCallPages - 1)
          /\ \A k \in 2..FirstCallPages :
                /\ fetched[FirstCallPages + k - 1] = fetched[k]
                /\ requests[FirstCallPages + k - 1].body = requests[k].body
          /\ sorted_committers = Ranking(Flatten(fetched))
          /\ SumCounts(sorted_committers, 1) =
                Len(fetched[1])
                + 2 * (Len(Flatten(SubSeq(fetched, 2, FirstCallPages))))

\* C30 witness: the first call read two pages and ranked their commits; the
\* second call found both pages in the tree, fetched the second page again,
\* and counted its committer twice
C30_Witness ==
    /\ pc = "done"
    /\ Len(printed) = 2
    /\ HasHistory
    /\ Len(fetched) = 3
    /\ Len(fetched[1]) > 0
    /\ Len(fetched[2]) > 0
    /\ fetched[3] = fetched[2]
    /\ Len(data.object.history.nodes) = Len(fetched[1]) + 2 * Len(fetched[2])
    /\ data.object.history.pageInfo.hasNextPage
    /\ \E e \in 1..Len(sorted_committers) : sorted_committers[e].count > 1

====
